---- MODULE Spec2Model ----
(***************************************************************************)
(* Model of scripts/import_chatgpt_gdpr_sample.py: the conversation        *)
(* linearizer (build_chat_payload and its helpers), the chunked delivery   *)
(* of a selection (import_with_chunks as called by main), and main: the    *)
(* token, the dedup against the state file and the server, the selection.  *)
(*                                                                         *)
(* Python values are encoded as follows.  A string is a TLA+ string.       *)
(* None (and an absent dict key read with .get) is the reserved string     *)
(* None; a JSON value that is neither a string nor None is NonStr.  A      *)
(* value that may or may not be a dict (a list) is a record with the       *)
(* field isdict (islist).  The mapping dict is the sequence of its items   *)
(* in iteration order, each item a node record that also carries its key.  *)
(* Timestamps, titles and the fields "done", "context" and "options" are   *)
(* copied or derived independently of everything modelled here and are     *)
(* left out of the records.                                                *)
(***************************************************************************)
EXTENDS Integers, Sequences, FiniteSets, TLC

VARIABLES
    convo,              \* build_chat_payload: the conversation passed in
    include_system,     \* build_chat_payload: flag
    include_tool,       \* build_chat_payload: flag
    keep_empty,         \* build_chat_payload: flag
    result,             \* build_chat_payload: the returned (chat_obj, stats)
    lpc,                \* build_chat_payload: "idle" | "call" | "walk" |
                        \* "convert" | "returned"
    walk,               \* build_chat_payload: the locals node_id, visited and
                        \* node_chain (before it is reversed), as a record
    selected_forms,     \* main: the import forms of the selection
    selected_stats,     \* main: the stats records of the selection
    chunk_size,         \* --chunk-size, then import_with_chunks' chunk_size
    continue_on_error,  \* --continue-on-error
    state_file,         \* --state-file: a path or None
    state_lines,        \* the lines of the file at state_file
    imported_count,     \* import_with_chunks: imported_count
    failed_count,       \* import_with_chunks: failed_count
    responses,          \* history: the number of records in the arrays the
                        \* calls of post_import returned
    start,              \* import_with_chunks: start of the current chunk
    single,             \* import_with_chunks: offset in the fallback loop
    pc,                 \* main: "idle" | "main" | "fetch" | "load" | "select" |
                        \* "selected" | "auth" | "import" | "bulk" | "single" |
                        \* "exit"
    exit_code,          \* main: the return value, read once pc = "exit"
    calls,              \* history: the post_import calls made, in order
    state_at_start,     \* history: state_lines when main started
    args,               \* main: the other command-line arguments
    conversations,      \* main: the array read from the export file
    token,              \* main: token
    existing_source_ids,\* main: the ids found in the remote chat listing
    imported_state_ids, \* main: the ids read from the state file
    examined,           \* history: the candidates the selection loop examined
    signins,            \* history: the number of calls of signin
    listings,           \* history: the number of calls of get_all_chats
    run,                \* history: the number of the run, 1 or 2
    first_run           \* history: calls, as the first run left it

linVars == <<convo, include_system, include_tool, keep_empty, result, lpc,
             walk>>

runVars == <<selected_forms, selected_stats, chunk_size, continue_on_error,
             state_file, state_lines, imported_count, failed_count, responses,
             start, single, pc, exit_code, calls, state_at_start>>

mainVars == <<args, conversations, token, existing_source_ids,
              imported_state_ids, examined, signins, listings, run, first_run>>

vars == <<linVars, runVars, mainVars>>

-----------------------------------------------------------------------------
(* Bounds of the model. *)

MaxNodes == 3          \* most nodes in a mapping drawn as input
MaxSelected == 3       \* most conversations in a selection
MaxChunkSize == 2      \* largest --chunk-size
MaxSkew == 1           \* how far a response's length may be from the request's

-----------------------------------------------------------------------------
(* Python values. *)

None == "<None>"
NonStr == "<NonStr>"

IsStr(v) == v \notin {None, NonStr}

\* bool(v) for a value that is a string or None
Truthy(v) == v \notin {None, ""}

\* str(v) for a value that is a string or None
Str(v) == IF v = None THEN "None" ELSE v

\* The strings of the input alphabet carry no surrounding white space,
\* except the ones that are white space only.
Blank == {"", " "}

\* s.strip()
Strip(s) == IF s \in Blank THEN "" ELSE s

\* "\n".join(strings)
RECURSIVE Join(_)
Join(strings) ==
    IF strings = <<>> THEN ""
    ELSE IF Len(strings) = 1 THEN strings[1]
    ELSE strings[1] \o "\n" \o Join(Tail(strings))

Range(s) == {s[i] : i \in 1..Len(s)}

-----------------------------------------------------------------------------
(* The helpers of build_chat_payload. *)

\* best_effort_text(obj) for a content dict; of the preferred keys the
\* content dicts of the input alphabet carry only "text".
BestEffortText(obj) ==
    IF ~obj.isdict THEN ""
    ELSE IF IsStr(obj.text) /\ Strip(obj.text) # "" THEN Strip(obj.text)
    ELSE ""

\* extract_text(content), for the content types text, code and the ones
\* that go through best_effort_text
ExtractText(content) ==
    IF ~content.isdict THEN ""
    ELSE IF content.content_type = "text" THEN
        LET strings == SelectSeq(content.parts, LAMBDA item : Strip(item) # "")
        IN  IF strings # <<>> THEN Strip(Join(strings))
            ELSE IF IsStr(content.text) THEN Strip(content.text)
            ELSE ""
    ELSE IF content.content_type = "code" THEN
        IF IsStr(content.text) /\ Strip(content.text) # ""
        THEN Strip(content.text)
        ELSE "[code]"
    ELSE
        LET text == BestEffortText(content)
        IN  IF text # "" THEN text ELSE "[" \o content.content_type \o "]"

\* extract_model_slug(message)
ExtractModelSlug(message) ==
    LET metadata == message.metadata
    IN  IF ~metadata.isdict THEN "chatgpt-import"
        ELSE IF IsStr(metadata.model_slug) /\ Strip(metadata.model_slug) # ""
            THEN Strip(metadata.model_slug)
        ELSE IF IsStr(metadata.default_model_slug)
                /\ Strip(metadata.default_model_slug) # ""
            THEN Strip(metadata.default_model_slug)
        ELSE IF IsStr(metadata.resolved_model_slug)
                /\ Strip(metadata.resolved_model_slug) # ""
            THEN Strip(metadata.resolved_model_slug)
        ELSE "chatgpt-import"

\* A role filter that lets every role through.
AllowedRoleAny(role, inc_system, inc_tool) == TRUE

\* allowed_role(role, include_system, include_tool)
AllowedRole(role, inc_system, inc_tool) ==
    IF role \in {"user", "assistant"} THEN TRUE
    ELSE IF role = "system" THEN inc_system
    ELSE IF role = "tool" THEN inc_tool
    ELSE FALSE

-----------------------------------------------------------------------------
(* build_chat_payload. *)

MappingKeys(mapping) == {mapping[i].key : i \in 1..Len(mapping)}

\* mapping[node_id]
Lookup(mapping, node_id) ==
    mapping[CHOOSE i \in 1..Len(mapping) : mapping[i].key = node_id]

\* A fallback that takes the first item whatever its children.
FallbackLeafFirst(mapping, current_node) == mapping[1].key

\* The fallback of the leaf resolution: the first item, in iteration
\* order, whose children is an empty list; current_node stays as it was
\* when there is none.
FallbackLeaf(mapping, current_node) ==
    LET leaves == {i \in 1..Len(mapping) :
                      mapping[i].children.islist
                      /\ Len(mapping[i].children.items) = 0}
    IN  IF leaves = {} THEN current_node
        ELSE mapping[CHOOSE i \in leaves : \A j \in leaves : i <= j].key

\* A resolution that takes the fallback whatever current_node is.
ResolveLeafFallbackOnly(mapping, current_node) ==
    FallbackLeaf(mapping, current_node)

\* node_id as it stands when the walk starts
ResolveLeaf(mapping, current_node) ==
    IF ~IsStr(current_node) \/ current_node \notin MappingKeys(mapping)
    THEN FallbackLeaf(mapping, current_node)
    ELSE current_node

\* A walk that takes every node of the mapping, last item first, instead
\* of the nodes on the parent-link path.
WalkEveryNode(mapping, node_id, visited, node_chain) ==
    [i \in 1..Len(mapping) |-> mapping[Len(mapping) + 1 - i]]

\* The while loop: node_chain, leaf first, before it is reversed.
RECURSIVE Walk(_, _, _, _)
Walk(mapping, node_id, visited, node_chain) ==
    IF IsStr(node_id) /\ node_id \in MappingKeys(mapping) /\ node_id \notin visited
    THEN LET node == Lookup(mapping, node_id)
             chain == Append(node_chain, node)
         IN  IF ~IsStr(node.parent) THEN chain
             ELSE Walk(mapping, node.parent, visited \cup {node_id}, chain)
    ELSE node_chain

\* node_chain.reverse()
Reverse(s) == [i \in 1..Len(s) |-> s[Len(s) + 1 - i]]

\* The state of the conversion loop before its first iteration.  accepted
\* is not a variable of the code: it records the key of the node behind
\* each entry of ordered_ids.
LoopStart ==
    [messages_map |-> <<>>, ordered_ids |-> <<>>, assistant_models |-> {},
     last_id |-> None, accepted |-> <<>>]

\* The message identifier the loop body assigns to the message of node.
MessageId(st, node) ==
    LET n == Len(st.ordered_ids) + 1
        message_id ==
            IF Truthy(node.message.id) THEN node.message.id
            ELSE IF Truthy(node.id) THEN node.id
            ELSE "msg-" \o ToString(n)
    IN  IF message_id \in DOMAIN st.messages_map
        THEN message_id \o "-" \o ToString(n)
        ELSE message_id

\* The role of node's message, as the loop body computes it.
RoleOf(message) ==
    IF message.author.isdict THEN Strip(Str(message.author.role)) ELSE ""

\* The emptiness filter that drops nothing.
DropsEmptyNever(content, keep) == FALSE

\* The emptiness filter of the loop body: the message is skipped.
DropsEmpty(content, keep) == content = "" /\ ~keep

\* One iteration of the conversion loop, for one node of node_chain.
ConvertNode(st, node, inc_system, inc_tool, keep) ==
    LET message == node.message
        role == RoleOf(message)
        content == ExtractText(message.content)
        model_slug == ExtractModelSlug(message)
        message_id == MessageId(st, node)
        converted ==
            [id |-> message_id, parentId |-> st.last_id, childrenIds |-> <<>>,
             role |-> role, content |-> content, model |-> model_slug]
        linked ==
            IF st.last_id # None /\ st.last_id \in DOMAIN st.messages_map
            THEN [st.messages_map EXCEPT ![st.last_id].childrenIds =
                                              Append(@, message_id)]
            ELSE st.messages_map
    IN  IF ~message.isdict THEN st
        ELSE IF ~AllowedRole(role, inc_system, inc_tool) THEN st
        ELSE IF DropsEmpty(content, keep) THEN st
        ELSE [messages_map |->
                 [k \in DOMAIN linked \cup {message_id} |->
                     IF k = message_id THEN converted ELSE linked[k]],
              ordered_ids |-> Append(st.ordered_ids, message_id),
              assistant_models |->
                 IF role = "assistant"
                 THEN st.assistant_models \cup {model_slug}
                 ELSE st.assistant_models,
              last_id |-> message_id,
              accepted |-> Append(st.accepted, node.key)]

\* The conversion loop over node_chain[i..].
RECURSIVE ConvertLoop(_, _, _, _, _, _)
ConvertLoop(node_chain, i, st, inc_system, inc_tool, keep) ==
    IF i > Len(node_chain) THEN st
    ELSE ConvertLoop(node_chain, i + 1,
                     ConvertNode(st, node_chain[i], inc_system, inc_tool, keep),
                     inc_system, inc_tool, keep)

NoChat == [isnone |-> TRUE]

\* build_chat_payload(convo, include_system, include_tool, keep_empty):
\* the pair (chat_obj, stats).  models is the set behind the sorted list.
BuildChatPayload(c, inc_system, inc_tool, keep) ==
    LET mapping == c.mapping.items
        stats == [source_id |-> c.id,
                  source_nodes |-> IF c.mapping.isdict THEN Len(mapping) ELSE 0,
                  converted_messages |-> 0]
        leaf == ResolveLeaf(mapping, c.current_node)
        node_chain == Reverse(Walk(mapping, leaf, {}, <<>>))
        st == ConvertLoop(node_chain, 1, LoopStart, inc_system, inc_tool, keep)
    IN  IF ~c.mapping.isdict \/ mapping = <<>> THEN
            [chat |-> NoChat, stats |-> stats, accepted |-> <<>>]
        ELSE IF ~IsStr(leaf) \/ leaf \notin MappingKeys(mapping) THEN
            [chat |-> NoChat, stats |-> stats, accepted |-> <<>>]
        ELSE IF st.ordered_ids = <<>> THEN
            [chat |-> NoChat, stats |-> stats, accepted |-> <<>>]
        ELSE
            [chat |->
                [isnone |-> FALSE,
                 history |-> [currentId |-> st.ordered_ids[Len(st.ordered_ids)],
                              messages |-> st.messages_map],
                 models |-> IF st.assistant_models # {}
                            THEN st.assistant_models ELSE {"chatgpt-import"},
                 messages |-> [i \in 1..Len(st.ordered_ids) |->
                                  st.messages_map[st.ordered_ids[i]]]],
             stats |-> [stats EXCEPT !.converted_messages = Len(st.ordered_ids)],
             accepted |-> st.accepted]

-----------------------------------------------------------------------------
(* The conversations build_chat_payload is applied to. *)

Key(i) == "n" \o ToString(i)

NoMessage == [isdict |-> FALSE]
NoMetadata == [isdict |-> FALSE]
EmptyList == [islist |-> TRUE, items |-> <<>>]
List(items) == [islist |-> TRUE, items |-> items]

TextContent(parts) ==
    [isdict |-> TRUE, content_type |-> "text", parts |-> parts, text |-> None]

Message(id, role, content, metadata) ==
    [isdict |-> TRUE, id |-> id, author |-> [isdict |-> TRUE, role |-> role],
     content |-> content, metadata |-> metadata]

Node(key, id, parent, children, message) ==
    [key |-> key, id |-> id, parent |-> parent, children |-> children,
     message |-> message]

Conversation(id, mapping, current_node) ==
    [id |-> id, mapping |-> mapping, current_node |-> current_node]

Dict(items) == [isdict |-> TRUE, items |-> items]

UserHi == Message(None, "user", TextContent(<<"hi">>), NoMetadata)

\* The messages a node of a chain conversation may carry: every role with
\* text, the always-allowed and the flag-dependent roles with no text, a
\* message without an author, and no message at all.
MessageKinds ==
    {NoMessage, UserHi,
     Message(None, "user", TextContent(<<" ">>), NoMetadata),
     Message(None, "assistant", TextContent(<<"hi", "there">>),
             [isdict |-> TRUE, model_slug |-> None, default_model_slug |-> "gpt-4",
              resolved_model_slug |-> None]),
     Message(None, "system", TextContent(<<"hi">>), NoMetadata),
     Message(None, "system", TextContent(<<>>), NoMetadata),
     Message(None, "tool",
             [isdict |-> TRUE, content_type |-> "code", parts |-> <<>>, text |-> None],
             NoMetadata),
     Message(None, "critic", TextContent(<<"hi">>), NoMetadata),
     [isdict |-> TRUE, id |-> None, author |-> [isdict |-> FALSE],
      content |-> TextContent(<<"hi">>), metadata |-> NoMetadata]}

\* A well-formed chain n1 <- n2 <- ... <- nn with current_node = nn.
ChainMapping(n, message, id) ==
    [i \in 1..n |->
        Node(Key(i), id[i], IF i = 1 THEN None ELSE Key(i - 1),
             IF i = n THEN EmptyList ELSE List(<<Key(i + 1)>>), message[i])]

KeyIds(n) == [i \in 1..n |-> Key(i)]

\* A chain whose nodes carry the given messages.
ChainConvo(n, message) ==
    Conversation("c1", Dict(ChainMapping(n, message, KeyIds(n))), Key(n))

\* The conversations without a usable mapping.
NoMappingConvos ==
    {Conversation("c1", [isdict |-> FALSE, items |-> <<>>], None),
     Conversation("c1", Dict(<<>>), "n1")}

\* The identifiers a message and a node may carry.
MessageIds == {None, "a", "a-2", "a-3", "msg-2"}
NodeIds == {None, "a"}

\* A chain of user messages with the given message and node identifiers.
IdConvo(n, mid, nid) ==
    Conversation("c1",
        Dict(ChainMapping(n, [i \in 1..n |-> [UserHi EXCEPT !.id = mid[i]]], nid)),
        Key(n))

\* Parent links may point anywhere: to no node, to a key that is not in
\* the mapping, to any node (cycles and branches included).
ParentChoices(n) == {None, "ghost"} \cup {Key(i) : i \in 1..n}

\* current_node with the node from which on the children lists are empty:
\* a valid current_node, or one that is missing, empty, not a string or not
\* a key, over every position of the first childless node (n + 1: none).
LeafChoices(n) ==
    ({Key(i) : i \in 1..n} \X {n})
        \cup ({None, "", NonStr, "ghost"} \X (1..(n + 1)))

TreeMapping(n, parent, first_childless) ==
    [i \in 1..n |->
        Node(Key(i), Key(i), parent[i],
             IF i >= first_childless THEN EmptyList ELSE List(<<"ghost">>),
             UserHi)]

\* A node graph of the given shape, every node with a user message.
TreeConvo(n, parent, leaf) ==
    Conversation("c1", Dict(TreeMapping(n, parent, leaf[2])), leaf[1])

-----------------------------------------------------------------------------
(* The specification of one call of build_chat_payload. *)

Pending == [pending |-> TRUE]

\* The locals of the walk as line 317 leaves them; node_id is assigned
\* when the leaf is resolved.
WalkIdle == walk = [node_id |-> None, visited |-> {}, node_chain |-> <<>>]

\* build_chat_payload is not running.
LinearizeIdle ==
    /\ lpc = "idle"
    /\ convo = Conversation(None, [isdict |-> FALSE, items |-> <<>>], None)
    /\ include_system = FALSE
    /\ include_tool = FALSE
    /\ keep_empty = FALSE
    /\ result = Pending
    /\ WalkIdle

\* main is not running.
RunIdle ==
    /\ pc = "idle"
    /\ selected_forms = <<>>
    /\ selected_stats = <<>>
    /\ chunk_size = 0
    /\ continue_on_error = FALSE
    /\ state_file = None
    /\ state_lines = <<>>
    /\ imported_count = 0
    /\ failed_count = 0
    /\ responses = 0
    /\ start = 0
    /\ single = 0
    /\ exit_code = 0
    /\ calls = <<>>
    /\ state_at_start = <<>>
    /\ args = [count |-> 0]
    /\ conversations = <<>>
    /\ token = None
    /\ existing_source_ids = {}
    /\ imported_state_ids = {}
    /\ examined = <<>>
    /\ signins = 0
    /\ listings = 0
    /\ run = 1
    /\ first_run = <<>>

\* The conversations of any graph shape and of any identifiers run under
\* the command-line defaults of the three flags; the message kinds run
\* under every combination of them.
InitLinearize ==
    /\ RunIdle
    /\ lpc = "call"
    /\ result = Pending
    /\ WalkIdle
    /\ \/ /\ \/ \E n \in 1..MaxNodes : \E message \in [1..n -> MessageKinds] :
                   convo = ChainConvo(n, message)
             \/ convo \in NoMappingConvos
          /\ include_system \in BOOLEAN
          /\ include_tool \in BOOLEAN
          /\ keep_empty \in BOOLEAN
       \/ /\ \/ \E n \in 1..MaxNodes :
                   \E parent \in [1..n -> ParentChoices(n)], leaf \in LeafChoices(n) :
                       convo = TreeConvo(n, parent, leaf)
             \/ \E n \in 1..MaxNodes :
                   \E mid \in [1..n -> MessageIds], nid \in [1..n -> NodeIds] :
                       convo = IdConvo(n, mid, nid)
          /\ include_system = FALSE
          /\ include_tool = FALSE
          /\ keep_empty = FALSE

CallBuildChatPayload ==
    /\ lpc = "call"
    /\ result' = BuildChatPayload(convo, include_system, include_tool, keep_empty)
    /\ lpc' = "returned"
    /\ UNCHANGED <<convo, include_system, include_tool, keep_empty, walk,
                   runVars, mainVars>>

NextLinearize == CallBuildChatPayload

SpecLinearize == InitLinearize /\ [][NextLinearize]_vars

-----------------------------------------------------------------------------
(* build_chat_payload with the leaf resolution and the parent walk taken   *)
(* one step at a time: one action per pass through the while loop.         *)

\* Line 311: the mapping is not a dict or is empty; the call returns.
RejectMapping ==
    /\ lpc = "call"
    /\ ~convo.mapping.isdict \/ convo.mapping.items = <<>>
    /\ result' = BuildChatPayload(convo, include_system, include_tool, keep_empty)
    /\ lpc' = "returned"
    /\ UNCHANGED <<convo, include_system, include_tool, keep_empty, walk,
                   runVars, mainVars>>

\* Lines 317-327: node_id = current_node, then the fallback; the call
\* returns when node_id is still not a key of the mapping.
ResolveActiveLeaf ==
    /\ lpc = "call"
    /\ convo.mapping.isdict /\ convo.mapping.items # <<>>
    /\ LET leaf == ResolveLeaf(convo.mapping.items, convo.current_node)
       IN  /\ walk' = [walk EXCEPT !.node_id = leaf]
           /\ IF ~IsStr(leaf) \/ leaf \notin MappingKeys(convo.mapping.items)
              THEN /\ result' = BuildChatPayload(convo, include_system,
                                                 include_tool, keep_empty)
                   /\ lpc' = "returned"
              ELSE /\ lpc' = "walk"
                   /\ UNCHANGED result
    /\ UNCHANGED <<convo, include_system, include_tool, keep_empty, runVars,
                   mainVars>>

\* Line 329: the condition of the while loop.
WalkCondition ==
    /\ IsStr(walk.node_id)
    /\ walk.node_id \in MappingKeys(convo.mapping.items)
    /\ walk.node_id \notin walk.visited

\* A pass through the loop that does not record the node as visited.
WalkStepForgetful ==
    /\ lpc = "walk"
    /\ IsStr(walk.node_id) /\ walk.node_id \in MappingKeys(convo.mapping.items)
    /\ LET node == Lookup(convo.mapping.items, walk.node_id)
       IN  IF ~IsStr(node.parent)
           THEN /\ walk' = [walk EXCEPT !.node_chain = Append(@, node)]
                /\ lpc' = "convert"
           ELSE /\ walk' = [walk EXCEPT !.node_chain = Append(@, node),
                                        !.node_id = node.parent]
                /\ UNCHANGED lpc
    /\ UNCHANGED <<convo, include_system, include_tool, keep_empty, result,
                   runVars, mainVars>>

\* Lines 330-336: one pass through the loop; the break leaves node_id as
\* it is.
WalkStep ==
    /\ lpc = "walk"
    /\ WalkCondition
    /\ LET node == Lookup(convo.mapping.items, walk.node_id)
       IN  IF ~IsStr(node.parent)
           THEN /\ walk' = [walk EXCEPT !.visited = @ \cup {walk.node_id},
                                        !.node_chain = Append(@, node)]
                /\ lpc' = "convert"
           ELSE /\ walk' = [walk EXCEPT !.visited = @ \cup {walk.node_id},
                                        !.node_chain = Append(@, node),
                                        !.node_id = node.parent]
                /\ UNCHANGED lpc
    /\ UNCHANGED <<convo, include_system, include_tool, keep_empty, result,
                   runVars, mainVars>>

\* Line 329: the condition is false and the loop is left.
WalkEnd ==
    /\ lpc = "walk"
    /\ ~WalkCondition
    /\ lpc' = "convert"
    /\ UNCHANGED <<convo, include_system, include_tool, keep_empty, result,
                   walk, runVars, mainVars>>

\* Lines 338-410: the chain is reversed and converted, and the call
\* returns.
ConvertChain ==
    /\ lpc = "convert"
    /\ LET mapping == convo.mapping.items
           stats == [source_id |-> convo.id, source_nodes |-> Len(mapping),
                     converted_messages |-> 0]
           st == ConvertLoop(Reverse(walk.node_chain), 1, LoopStart,
                             include_system, include_tool, keep_empty)
       IN  result' =
             IF st.ordered_ids = <<>> THEN
                 [chat |-> NoChat, stats |-> stats, accepted |-> <<>>]
             ELSE
                 [chat |->
                     [isnone |-> FALSE,
                      history |-> [currentId |-> st.ordered_ids[Len(st.ordered_ids)],
                                   messages |-> st.messages_map],
                      models |-> IF st.assistant_models # {}
                                 THEN st.assistant_models ELSE {"chatgpt-import"},
                      messages |-> [i \in 1..Len(st.ordered_ids) |->
                                       st.messages_map[st.ordered_ids[i]]]],
                  stats |-> [stats EXCEPT !.converted_messages = Len(st.ordered_ids)],
                  accepted |-> st.accepted]
    /\ lpc' = "returned"
    /\ UNCHANGED <<convo, include_system, include_tool, keep_empty, walk,
                   runVars, mainVars>>

\* Any node graph, and the conversations without a usable mapping, under
\* the command-line defaults of the three flags.
InitWalk ==
    /\ RunIdle
    /\ lpc = "call"
    /\ result = Pending
    /\ WalkIdle
    /\ \/ \E n \in 1..MaxNodes :
             \E parent \in [1..n -> ParentChoices(n)], leaf \in LeafChoices(n) :
                 convo = TreeConvo(n, parent, leaf)
       \/ convo \in NoMappingConvos
    /\ include_system = FALSE
    /\ include_tool = FALSE
    /\ keep_empty = FALSE

NextWalk ==
    \/ RejectMapping
    \/ ResolveActiveLeaf
    \/ WalkStep
    \/ WalkEnd
    \/ ConvertChain

\* The steps up to the end of the while loop.
WalkActions == RejectMapping \/ ResolveActiveLeaf \/ WalkStep \/ WalkEnd

\* The interpreter keeps running the call: a step of the resolution or of
\* the loop that can be taken is taken.
SpecWalk == InitWalk /\ [][NextWalk]_vars /\ WF_vars(WalkActions)

-----------------------------------------------------------------------------
(* load/append of the state file and import_with_chunks. *)

\* A write that records only the first of the ids.
AppendStateIdsFirst(path, lines, ids) ==
    IF ~Truthy(path) \/ ids = <<>> \/ ~Truthy(ids[1]) THEN lines
    ELSE Append(lines, ids[1])

\* append_state_ids(path, ids): the lines of the file afterwards
AppendStateIds(path, lines, ids) ==
    IF ~Truthy(path) \/ ids = <<>> THEN lines
    ELSE lines \o SelectSeq(ids, LAMBDA source_id : Truthy(source_id))

\* seq[first:last] of Python, on a 1-based sequence
Slice(seq, first, last) == [i \in 1..(last - first) |-> seq[first + i]]

Min(a, b) == IF a <= b THEN a ELSE b

\* A chunk that runs to the end of the selection.
ChunkEndTotal == Len(selected_forms)

\* end = min(start + chunk_size, total)
ChunkEnd == Min(start + chunk_size, Len(selected_forms))

\* The ids of the chunk, last first.
SourceIdsReversed(stats_chunk) ==
    [i \in 1..Len(stats_chunk) |->
        Str(stats_chunk[Len(stats_chunk) + 1 - i].source_id)]

\* [str(item.get("source_id", "")) for item in stats_chunk]
SourceIds(stats_chunk) ==
    [i \in 1..Len(stats_chunk) |-> Str(stats_chunk[i].source_id)]

\* The lengths of the array a successful call for k chats may return:
\* one record for each chat, or MaxSkew records fewer or more.
ResponseLengths(k) == {n \in {k - MaxSkew, k, k + MaxSkew} : n >= 0}

\* The ways a call of post_import fails.
Failures == {"HTTPError", "Exception"}

\* The record of one post_import call: the chats sent, which are those at
\* first+1..last of the selection, the outcome, and the number of lines of
\* the state file when the call was made.
Call(kind, first, last, ok) ==
    [kind |-> kind, first |-> first, last |-> last, ok |-> ok,
     chats |-> Slice(selected_forms, first, last),
     lines_before |-> Len(state_lines)]

\* Lines 575-580: the entry of import_with_chunks.
EnterImportWithChunks ==
    /\ pc = "import"
    /\ chunk_size' = IF chunk_size <= 0 THEN Len(selected_forms) ELSE chunk_size
    /\ imported_count' = 0
    /\ failed_count' = 0
    /\ responses' = 0
    /\ start' = 0
    /\ pc' = "bulk"
    /\ UNCHANGED <<selected_forms, selected_stats, continue_on_error, state_file,
                   state_lines, single, exit_code, calls, state_at_start, linVars, mainVars>>

\* A response that is recorded even though the call failed.
BulkFailureRecorded(failure) ==
    LET ids == SourceIds(Slice(selected_stats, start, ChunkEnd))
        lines == AppendStateIds(state_file, state_lines, ids)
    IN  /\ pc = "bulk"
        /\ start < Len(selected_forms)
        /\ failure \in Failures
        /\ state_lines' = lines
        /\ calls' = Append(calls, Call("bulk", start, ChunkEnd, FALSE))
        /\ IF continue_on_error
           THEN pc' = "single" /\ single' = 0 /\ exit_code' = exit_code
           ELSE pc' = "exit" /\ exit_code' = 1 /\ single' = single
        /\ UNCHANGED <<responses, selected_forms, selected_stats, chunk_size, continue_on_error,
                       state_file, imported_count, failed_count, start, state_at_start, linVars, mainVars>>

\* Lines 582-599: the bulk call of the chunk at start succeeds with an
\* array of n records.
BulkSuccess(n) ==
    LET ids == SourceIds(Slice(selected_stats, start, ChunkEnd))
        lines == AppendStateIds(state_file, state_lines, ids)
    IN  /\ pc = "bulk"
        /\ start < Len(selected_forms)
        /\ n \in ResponseLengths(ChunkEnd - start)
        /\ responses' = responses + n
        /\ imported_count' = imported_count + n
        /\ state_lines' = lines
        /\ calls' = Append(calls, Call("bulk", start, ChunkEnd, TRUE))
        /\ start' = start + chunk_size
        /\ UNCHANGED <<selected_forms, selected_stats, chunk_size, continue_on_error,
                       state_file, failed_count, single, pc, exit_code, state_at_start, linVars, mainVars>>

\* A bulk failure after which the chunk is retried chat by chat whatever
\* continue_on_error says.
BulkFailureRetries(failure) ==
    /\ pc = "bulk"
    /\ start < Len(selected_forms)
    /\ failure \in Failures
    /\ calls' = Append(calls, Call("bulk", start, ChunkEnd, FALSE))
    /\ pc' = "single"
    /\ single' = 0
    /\ UNCHANGED <<responses, selected_forms, selected_stats, chunk_size, continue_on_error,
                   state_file, state_lines, imported_count, failed_count, start,
                   exit_code, state_at_start, linVars, mainVars>>

\* Lines 582-589, 600-615 (and 832-838 of main when the error is raised
\* again): the bulk call of the chunk at start fails.
BulkFailure(failure) ==
    /\ pc = "bulk"
    /\ start < Len(selected_forms)
    /\ failure \in Failures
    /\ calls' = Append(calls, Call("bulk", start, ChunkEnd, FALSE))
    /\ IF continue_on_error
       THEN pc' = "single" /\ single' = 0 /\ exit_code' = exit_code
       ELSE pc' = "exit" /\ exit_code' = 1 /\ single' = single
    /\ UNCHANGED <<responses, selected_forms, selected_stats, chunk_size, continue_on_error,
                   state_file, state_lines, imported_count, failed_count, start,
                   state_at_start, linVars, mainVars>>

\* The end of one iteration of the fallback loop: the next chat of the
\* chunk, or the next chunk.
NextSingle ==
    IF start + single + 1 < ChunkEnd
    THEN single' = single + 1 /\ start' = start /\ pc' = "single"
    ELSE single' = 0 /\ start' = start + chunk_size /\ pc' = "bulk"

\* Lines 618-629: the call for one chat of the failed chunk succeeds.
SingleSuccess(n) ==
    LET at == start + single
        source_id == Str(selected_stats[at + 1].source_id)
        lines == AppendStateIds(state_file, state_lines, <<source_id>>)
    IN  /\ pc = "single"
        /\ n \in ResponseLengths(1)
        /\ responses' = responses + n
        /\ imported_count' = imported_count + n
        /\ state_lines' = lines
        /\ calls' = Append(calls, Call("single", at, at + 1, TRUE))
        /\ NextSingle
        /\ UNCHANGED <<selected_forms, selected_stats, chunk_size, continue_on_error,
                       state_file, failed_count, exit_code, state_at_start, linVars, mainVars>>

\* A failed individual call that gives up the rest of its chunk.
SingleFailureSkipsRest(failure) ==
    LET at == start + single
    IN  /\ pc = "single"
        /\ failure \in Failures
        /\ failed_count' = failed_count + 1
        /\ calls' = Append(calls, Call("single", at, at + 1, FALSE))
        /\ single' = 0
        /\ start' = start + chunk_size
        /\ pc' = "bulk"
        /\ UNCHANGED <<responses, selected_forms, selected_stats, chunk_size,
                       continue_on_error, state_file, state_lines, imported_count,
                       exit_code, state_at_start, linVars, mainVars>>

\* Lines 618-623, 630-642: the call for one chat of the failed chunk fails.
SingleFailure(failure) ==
    LET at == start + single
    IN  /\ pc = "single"
        /\ failure \in Failures
        /\ failed_count' = failed_count + 1
        /\ calls' = Append(calls, Call("single", at, at + 1, FALSE))
        /\ NextSingle
        /\ UNCHANGED <<responses, selected_forms, selected_stats, chunk_size, continue_on_error,
                       state_file, state_lines, imported_count, exit_code,
                       state_at_start, linVars, mainVars>>

\* An exit whose status tells of failed deliveries with the fallback on too.
FinishImportStrict ==
    /\ pc = "bulk"
    /\ start >= Len(selected_forms)
    /\ exit_code' = IF failed_count > 0 THEN 1 ELSE 0
    /\ pc' = "exit"
    /\ UNCHANGED <<responses, selected_forms, selected_stats, chunk_size,
                   continue_on_error, state_file, state_lines, imported_count,
                   failed_count, start, single, calls, state_at_start, linVars,
                   mainVars>>

\* Lines 644 and 840-847: import_with_chunks returns and main exits.
FinishImport ==
    /\ pc = "bulk"
    /\ start >= Len(selected_forms)
    /\ exit_code' = IF failed_count > 0 /\ continue_on_error THEN 0
                    ELSE IF failed_count > 0 THEN 1 ELSE 0
    /\ pc' = "exit"
    /\ UNCHANGED <<responses, selected_forms, selected_stats, chunk_size, continue_on_error,
                   state_file, state_lines, imported_count, failed_count, start,
                   single, calls, state_at_start, linVars, mainVars>>

-----------------------------------------------------------------------------
(* main up to the call of import_with_chunks: the token, the two sets of   *)
(* known ids, the selection, the dry run.                                   *)

\* The namespace of parse_args, less --chunk-size as import_with_chunks
\* changes it, --continue-on-error and --state-file, which the variables
\* of these names hold, and less the arguments that are only printed or
\* passed on.  --include-system, --include-tool and --keep-empty are at
\* their default, False.
Args(count, allow_duplicates, dry_run, credentials, chunk) ==
    [count |-> count, allow_duplicates |-> allow_duplicates,
     dry_run |-> dry_run, token |-> credentials.token,
     email |-> credentials.email, password |-> credentials.password,
     chunk_size |-> chunk]

\* --token, --email and --password: a token, with an email and a password;
\* a blank token with an email and a password; an email whose password is
\* asked for; none of them.
Credentials ==
    {[token |-> "tok", email |-> "me", password |-> "pw"],
     [token |-> " ", email |-> "me", password |-> "pw"],
     [token |-> None, email |-> "me", password |-> None],
     [token |-> None, email |-> None, password |-> None]}

\* What is typed at the prompt of getpass, and what signin comes to: a
\* failure, or the token of the response, which may be blank.
Typed == {"", "pw"}
SigninResponses == Failures \cup {"tok2", " "}

\* A resolve_token that signs in when there is an email, token or not.
ResolveTokenEmailFirst(a, typed, response) ==
    IF Truthy(a.email) /\ Strip(a.email) # "" THEN
        LET password == IF Truthy(a.password) THEN a.password ELSE typed
        IN  IF ~Truthy(password) THEN
                [raised |-> TRUE, token |-> None, signin |-> FALSE]
            ELSE IF response \in Failures THEN
                [raised |-> TRUE, token |-> None, signin |-> TRUE]
            ELSE
                [raised |-> FALSE, token |-> Strip(response), signin |-> TRUE]
    ELSE IF Truthy(a.token) /\ Strip(a.token) # "" THEN
        [raised |-> FALSE, token |-> Strip(a.token), signin |-> FALSE]
    ELSE [raised |-> FALSE, token |-> None, signin |-> FALSE]

\* resolve_token(args): whether it raised, the token returned, and whether
\* it called signin.
ResolveToken(a, typed, response) ==
    IF Truthy(a.token) /\ Strip(a.token) # "" THEN
        [raised |-> FALSE, token |-> Strip(a.token), signin |-> FALSE]
    ELSE IF Truthy(a.email) /\ Strip(a.email) # "" THEN
        LET password == IF Truthy(a.password) THEN a.password ELSE typed
        IN  IF ~Truthy(password) THEN
                [raised |-> TRUE, token |-> None, signin |-> FALSE]
            ELSE IF response \in Failures THEN
                [raised |-> TRUE, token |-> None, signin |-> TRUE]
            ELSE
                [raised |-> FALSE, token |-> Strip(response), signin |-> TRUE]
    ELSE [raised |-> FALSE, token |-> None, signin |-> FALSE]

\* A chat of the listing of /chats/all, by the two fields of its meta.
RemoteChat(import_source, conversation_id) ==
    [meta |-> [import_source |-> import_source,
               conversation_id |-> conversation_id]]

\* The listings the server may answer with.
RemoteListings ==
    {<<>>,
     <<RemoteChat("manual", "c1"), RemoteChat("chatgpt-gdpr", "c2"),
       RemoteChat("chatgpt-gdpr", None), RemoteChat("chatgpt-gdpr", " ")>>}

\* fetch_existing_imported_source_ids, given the listing
FetchExistingImportedSourceIds(chats) ==
    {Strip(chats[i].meta.conversation_id) :
        i \in {j \in 1..Len(chats) :
                  /\ chats[j].meta.import_source = "chatgpt-gdpr"
                  /\ IsStr(chats[j].meta.conversation_id)
                  /\ Strip(chats[j].meta.conversation_id) # ""}}

\* A state file that is never read.
LoadStateIdsNoFile(path, lines) == {}

\* load_state_ids(path), given the lines of the file (none: no file)
LoadStateIds(path, lines) ==
    IF ~Truthy(path) THEN {}
    ELSE {Strip(lines[i]) : i \in 1..Len(lines)} \ {""}

\* The form main builds for the conversation at index item of the export,
\* whose identifier is id.
Form(id, item) == [meta |-> [conversation_id |-> id], item |-> item]

\* target_count = None if args.count == 0 else args.count: the target is
\* held as the count, 0 standing for None.
TargetCount(count) == count
NoTarget == 0

\* A selection loop that goes on after the target is reached.
RECURSIVE SelectLoopNoBreak(_, _, _, _, _, _, _)
SelectLoopNoBreak(convs, order, k, state_ids, existing, target, acc) ==
    IF k > Len(order) THEN acc
    ELSE
        LET idx == order[k]
            source_id == Str(convs[idx].id)
            built == BuildChatPayload(convs[idx], FALSE, FALSE, FALSE)
            seen == [acc EXCEPT !.examined = Append(@, idx)]
            taken == [seen EXCEPT !.forms = Append(@, Form(convs[idx].id, idx)),
                                  !.stats = Append(@, built.stats)]
        IN  IF Truthy(source_id) /\ source_id \in state_ids THEN
                SelectLoopNoBreak(convs, order, k + 1, state_ids, existing, target, seen)
            ELSE IF Truthy(source_id) /\ source_id \in existing THEN
                SelectLoopNoBreak(convs, order, k + 1, state_ids, existing, target, seen)
            ELSE IF built.chat.isnone THEN
                SelectLoopNoBreak(convs, order, k + 1, state_ids, existing, target, seen)
            ELSE SelectLoopNoBreak(convs, order, k + 1, state_ids, existing, target, taken)

\* Lines 729-772: the selection loop from the k-th candidate of order on.
\* acc holds selected_forms, selected_stats and the indices examined.
RECURSIVE SelectLoop(_, _, _, _, _, _, _)
SelectLoop(convs, order, k, state_ids, existing, target, acc) ==
    IF k > Len(order) THEN acc
    ELSE
        LET idx == order[k]
            source_id == Str(convs[idx].id)
            built == BuildChatPayload(convs[idx], FALSE, FALSE, FALSE)
            seen == [acc EXCEPT !.examined = Append(@, idx)]
            taken == [seen EXCEPT !.forms = Append(@, Form(convs[idx].id, idx)),
                                  !.stats = Append(@, built.stats)]
        IN  IF Truthy(source_id) /\ source_id \in state_ids THEN
                SelectLoop(convs, order, k + 1, state_ids, existing, target, seen)
            ELSE IF Truthy(source_id) /\ source_id \in existing THEN
                SelectLoop(convs, order, k + 1, state_ids, existing, target, seen)
            ELSE IF built.chat.isnone THEN
                SelectLoop(convs, order, k + 1, state_ids, existing, target, seen)
            ELSE IF target # NoTarget /\ Len(taken.forms) >= target THEN taken
            ELSE SelectLoop(convs, order, k + 1, state_ids, existing, target, taken)

\* The orders rng.shuffle may leave the n candidate indices in; under
\* --no-shuffle the order is the first of them, 1..n.
Orders(n) ==
    {order \in [1..n -> 1..n] : \A i, j \in 1..n : order[i] = order[j] => i = j}

\* main returns code.
Exit(code) == pc' = "exit" /\ exit_code' = code

\* Lines 672-689: the token for the dedup against the server.
ResolveTokenForDedup(typed, response) ==
    LET r == ResolveToken(args, typed, response)
    IN  /\ pc = "main"
        /\ ~args.allow_duplicates
        /\ signins' = IF r.signin THEN signins + 1 ELSE signins
        /\ IF r.raised THEN Exit(1) /\ token' = token
           ELSE IF ~Truthy(r.token) THEN Exit(2) /\ token' = r.token
           ELSE pc' = "fetch" /\ exit_code' = exit_code /\ token' = r.token
        /\ UNCHANGED <<responses, selected_forms, selected_stats, chunk_size, continue_on_error,
                       state_file, state_lines, imported_count, failed_count, start,
                       single, calls, state_at_start, args, conversations,
                       existing_source_ids, imported_state_ids, examined, listings,
                       run, first_run, linVars>>

\* A run that fetches the listing under --allow-duplicates too.
SkipDedupFetches ==
    /\ pc = "main"
    /\ args.allow_duplicates
    /\ pc' = "fetch"
    /\ UNCHANGED <<responses, selected_forms, selected_stats, chunk_size,
                   continue_on_error, state_file, state_lines, imported_count,
                   failed_count, start, single, exit_code, calls, state_at_start,
                   mainVars, linVars>>

\* Line 672, --allow-duplicates: no token and no listing are asked for.
SkipDedup ==
    /\ pc = "main"
    /\ args.allow_duplicates
    /\ pc' = "load"
    /\ UNCHANGED <<responses, selected_forms, selected_stats, chunk_size, continue_on_error,
                   state_file, state_lines, imported_count, failed_count, start,
                   single, exit_code, calls, state_at_start, mainVars, linVars>>

\* Lines 691-707: the listing is fetched, or fetching it fails.
FetchExisting(outcome) ==
    /\ pc = "fetch"
    /\ listings' = listings + 1
    /\ IF outcome \in Failures
       THEN Exit(1) /\ existing_source_ids' = existing_source_ids
       ELSE /\ existing_source_ids' = FetchExistingImportedSourceIds(outcome)
            /\ pc' = "load"
            /\ exit_code' = exit_code
    /\ UNCHANGED <<responses, selected_forms, selected_stats, chunk_size, continue_on_error,
                   state_file, state_lines, imported_count, failed_count, start,
                   single, calls, state_at_start, args, conversations, token,
                   imported_state_ids, examined, signins, run, first_run, linVars>>

\* Line 709: the state file is read.
LoadState ==
    /\ pc = "load"
    /\ imported_state_ids' = LoadStateIds(state_file, state_lines)
    /\ pc' = "select"
    /\ UNCHANGED <<responses, selected_forms, selected_stats, chunk_size, continue_on_error,
                   state_file, state_lines, imported_count, failed_count, start,
                   single, exit_code, calls, state_at_start, args, conversations,
                   token, existing_source_ids, examined, signins, listings, run,
                   first_run, linVars>>

\* The selection of a run that goes through the candidates in the given
\* order.
Selection(order) ==
    SelectLoop(conversations, order, 1, imported_state_ids, existing_source_ids,
               TargetCount(args.count),
               [forms |-> <<>>, stats |-> <<>>, examined |-> <<>>])

\* A selection that takes no account of the ids found on the server.
SelectConversationsStateOnly(orders) ==
    /\ pc = "select"
    /\ \E order \in orders :
          LET sel == SelectLoop(conversations, order, 1, imported_state_ids, {},
                                TargetCount(args.count),
                                [forms |-> <<>>, stats |-> <<>>, examined |-> <<>>])
          IN  /\ selected_forms' = sel.forms
              /\ selected_stats' = sel.stats
              /\ examined' = sel.examined
    /\ pc' = "selected"
    /\ UNCHANGED <<responses, chunk_size, continue_on_error, state_file,
                   state_lines, imported_count, failed_count, start, single,
                   exit_code, calls, state_at_start, args, conversations, token,
                   existing_source_ids, imported_state_ids, signins, listings,
                   run, first_run, linVars>>

\* Lines 718-772: the candidates are put in order, in the given orders
\* one of them, and the selection loop runs over them.
SelectConversations(orders) ==
    /\ pc = "select"
    /\ \E order \in orders :
          /\ selected_forms' = Selection(order).forms
          /\ selected_stats' = Selection(order).stats
          /\ examined' = Selection(order).examined
    /\ pc' = "selected"
    /\ UNCHANGED <<responses, chunk_size, continue_on_error, state_file,
                   state_lines, imported_count, failed_count, start, single,
                   exit_code, calls, state_at_start, args, conversations, token,
                   existing_source_ids, imported_state_ids, signins, listings,
                   run, first_run, linVars>>

\* A check of the selection that lets a dry run go on.
CheckSelectionNoDryRun ==
    /\ pc = "selected"
    /\ IF /\ TargetCount(args.count) # NoTarget
          /\ Len(selected_forms) < TargetCount(args.count)
       THEN Exit(1)
       ELSE IF Len(selected_forms) = 0 THEN Exit(0)
       ELSE /\ pc' = IF Truthy(token) THEN "import" ELSE "auth"
            /\ exit_code' = exit_code
    /\ UNCHANGED <<responses, selected_forms, selected_stats, chunk_size, continue_on_error,
                   state_file, state_lines, imported_count, failed_count, start,
                   single, calls, state_at_start, mainVars, linVars>>

\* Lines 774-804: too few selected, nothing selected, a dry run, or on to
\* the delivery, by way of resolve_token if there is no token yet.
CheckSelection ==
    /\ pc = "selected"
    /\ IF /\ TargetCount(args.count) # NoTarget
          /\ Len(selected_forms) < TargetCount(args.count)
       THEN Exit(1)
       ELSE IF Len(selected_forms) = 0 THEN Exit(0)
       ELSE IF args.dry_run THEN Exit(0)
       ELSE /\ pc' = IF Truthy(token) THEN "import" ELSE "auth"
            /\ exit_code' = exit_code
    /\ UNCHANGED <<responses, selected_forms, selected_stats, chunk_size, continue_on_error,
                   state_file, state_lines, imported_count, failed_count, start,
                   single, calls, state_at_start, mainVars, linVars>>

\* Lines 804-820: the token for the delivery.
ResolveTokenForImport(typed, response) ==
    LET r == ResolveToken(args, typed, response)
    IN  /\ pc = "auth"
        /\ signins' = IF r.signin THEN signins + 1 ELSE signins
        /\ IF r.raised THEN Exit(1) /\ token' = token
           ELSE IF ~Truthy(r.token) THEN Exit(2) /\ token' = r.token
           ELSE pc' = "import" /\ exit_code' = exit_code /\ token' = r.token
        /\ UNCHANGED <<responses, selected_forms, selected_stats, chunk_size, continue_on_error,
                       state_file, state_lines, imported_count, failed_count, start,
                       single, calls, state_at_start, args, conversations,
                       existing_source_ids, imported_state_ids, examined, listings,
                       run, first_run, linVars>>

\* The same command is run again over the same export and state file.
StartSecondRun ==
    /\ pc = "exit"
    /\ run = 1
    /\ run' = 2
    /\ first_run' = calls
    /\ pc' = "main"
    /\ selected_forms' = <<>>
    /\ selected_stats' = <<>>
    /\ chunk_size' = args.chunk_size
    /\ imported_count' = 0
    /\ failed_count' = 0
    /\ responses' = 0
    /\ start' = 0
    /\ single' = 0
    /\ exit_code' = 0
    /\ calls' = <<>>
    /\ state_at_start' = state_lines
    /\ token' = None
    /\ existing_source_ids' = {}
    /\ imported_state_ids' = {}
    /\ examined' = <<>>
    /\ signins' = 0
    /\ listings' = 0
    /\ UNCHANGED <<continue_on_error, state_file, state_lines, args,
                   conversations, linVars>>

-----------------------------------------------------------------------------
(* The specification of one delivery phase of main. *)

\* The values of id an export conversation may have, as stats["source_id"]
\* holds them: two ids, the empty string, and None for no id.
SourceIdValues == {"c1", "c2", "", None}

\* An export conversation of one user message, and the stats record
\* build_chat_payload returns for it.
OneMessageConvo(id) == Conversation(id, Dict(ChainMapping(1, <<UserHi>>, KeyIds(1))), Key(1))
Stats(id) == [source_id |-> id, source_nodes |-> 1, converted_messages |-> 1]

\* main at line 822, run with --allow-duplicates, --count 0 and a token
\* over an export of conversations of one message each, under --no-shuffle:
\* every conversation is selected.  The state file, when one is named,
\* holds an id of an earlier run.
Init ==
    /\ LinearizeIdle
    /\ pc = "import"
    /\ \E n \in 1..MaxSelected : \E id \in [1..n -> SourceIdValues] :
          /\ conversations = [i \in 1..n |-> OneMessageConvo(id[i])]
          /\ selected_forms = [i \in 1..n |-> Form(id[i], i)]
          /\ selected_stats = [i \in 1..n |-> Stats(id[i])]
    /\ chunk_size \in 0..MaxChunkSize
    /\ continue_on_error \in BOOLEAN
    /\ \/ state_file = None /\ state_lines = <<>>
       \/ state_file = "state.txt" /\ state_lines = <<"c0">>
    /\ imported_count = 0
    /\ failed_count = 0
    /\ responses = 0
    /\ start = 0
    /\ single = 0
    /\ exit_code = 0
    /\ calls = <<>>
    /\ state_at_start = state_lines
    /\ args = Args(0, TRUE, FALSE,
                   [token |-> "tok", email |-> None, password |-> None],
                   chunk_size)
    /\ token = "tok"
    /\ existing_source_ids = {}
    /\ imported_state_ids = LoadStateIds(state_file, state_lines)
    /\ examined = [i \in 1..Len(conversations) |-> i]
    /\ signins = 0
    /\ listings = 0
    /\ run = 1
    /\ first_run = <<>>

Next ==
    \/ EnterImportWithChunks
    \/ \E n \in 0..(MaxSelected + MaxSkew) : BulkSuccess(n)
    \/ \E failure \in Failures : BulkFailure(failure)
    \/ \E n \in 0..(1 + MaxSkew) : SingleSuccess(n)
    \/ \E failure \in Failures : SingleFailure(failure)
    \/ FinishImport

Spec == Init /\ [][Next]_vars

-----------------------------------------------------------------------------
(* The delivery of a selection when the state file cannot be written:      *)
(* append_state_ids is called inside the try blocks of import_with_chunks, *)
(* so an OSError it raises (os.makedirs or open, lines 536-540, before any *)
(* line is written) is handled at lines 609-615 and 637-642 as a failure  *)
(* of the call that had just succeeded.                                    *)

\* Lines 589-594, 609-615 (and 835-838 of main when the error is raised
\* again): the bulk call succeeds with an array of n records, the count is
\* raised, append_state_ids raises; the chunk goes to the fallback, or the
\* run is aborted.
BulkSuccessAppendFails(n) ==
    /\ pc = "bulk"
    /\ start < Len(selected_forms)
    /\ Truthy(state_file)
    /\ n \in ResponseLengths(ChunkEnd - start)
    /\ responses' = responses + n
    /\ imported_count' = imported_count + n
    /\ calls' = Append(calls, Call("bulk", start, ChunkEnd, TRUE))
    /\ IF continue_on_error
       THEN pc' = "single" /\ single' = 0 /\ exit_code' = exit_code
       ELSE pc' = "exit" /\ exit_code' = 1 /\ single' = single
    /\ UNCHANGED <<selected_forms, selected_stats, chunk_size, continue_on_error,
                   state_file, state_lines, failed_count, start, state_at_start,
                   linVars, mainVars>>

\* Lines 623-625, 637-642: the call for one chat succeeds with an array of
\* n records, the count is raised, append_state_ids raises and the chat is
\* counted as failed.
SingleSuccessAppendFails(n) ==
    LET at == start + single
    IN  /\ pc = "single"
        /\ Truthy(state_file)
        /\ n \in ResponseLengths(1)
        /\ responses' = responses + n
        /\ imported_count' = imported_count + n
        /\ failed_count' = failed_count + 1
        /\ calls' = Append(calls, Call("single", at, at + 1, TRUE))
        /\ NextSingle
        /\ UNCHANGED <<selected_forms, selected_stats, chunk_size,
                       continue_on_error, state_file, state_lines, exit_code,
                       state_at_start, linVars, mainVars>>

\* The runs with a state file.
InitStateErrors == Init /\ Truthy(state_file)

NextStateErrors ==
    \/ Next
    \/ \E n \in 0..(MaxSelected + MaxSkew) : BulkSuccessAppendFails(n)
    \/ \E n \in 0..(1 + MaxSkew) : SingleSuccessAppendFails(n)

SpecStateErrors == InitStateErrors /\ [][NextStateErrors]_vars

-----------------------------------------------------------------------------
(* The specification of one run of main, and of two runs in a row. *)

MaxExport == 2         \* most conversations in the export
MaxCount == 2          \* largest --count

\* The conversations of the export: one message each under one of two
\* ids or the empty id, or one that build_chat_payload rejects.
ExportKinds ==
    {OneMessageConvo("c1"), OneMessageConvo("c2"), OneMessageConvo(""),
     Conversation("c1", Dict(<<>>), None)}

\* main at line 669, run with one of the given values of --chunk-size: the
\* arguments are parsed and checked, the export is read.  The state file,
\* when one is named, holds an id of an earlier run.
MainStarts(chunk_sizes) ==
    /\ LinearizeIdle
    /\ pc = "main"
    /\ \E n \in 0..MaxExport : conversations \in [1..n -> ExportKinds]
    /\ chunk_size \in chunk_sizes
    /\ continue_on_error \in BOOLEAN
    /\ \/ state_file = None /\ state_lines = <<>>
       \/ state_file = "state.txt" /\ state_lines = <<"c1">>
    /\ \E count \in 0..MaxCount, allow_duplicates \in BOOLEAN,
          dry_run \in BOOLEAN, credentials \in Credentials :
            args = Args(count, allow_duplicates, dry_run, credentials, chunk_size)
    /\ selected_forms = <<>>
    /\ selected_stats = <<>>
    /\ imported_count = 0
    /\ failed_count = 0
    /\ responses = 0
    /\ start = 0
    /\ single = 0
    /\ exit_code = 0
    /\ calls = <<>>
    /\ state_at_start = state_lines
    /\ token = None
    /\ existing_source_ids = {}
    /\ imported_state_ids = {}
    /\ examined = <<>>
    /\ signins = 0
    /\ listings = 0
    /\ run = 1
    /\ first_run = <<>>

\* One run of main, the selection delivered in one chunk.
InitMain == MainStarts({0})

\* import_with_chunks against a server that answers a delivery it accepts
\* with one record for each chat.
NextImport ==
    \/ EnterImportWithChunks
    \/ BulkSuccess(ChunkEnd - start)
    \/ \E failure \in Failures : BulkFailure(failure)
    \/ SingleSuccess(1)
    \/ \E failure \in Failures : SingleFailure(failure)
    \/ FinishImport

NextMain ==
    \/ \E typed \in Typed, response \in SigninResponses :
          ResolveTokenForDedup(typed, response)
    \/ SkipDedup
    \/ \E outcome \in Failures \cup RemoteListings : FetchExisting(outcome)
    \/ LoadState
    \/ SelectConversations(Orders(Len(conversations)))
    \/ CheckSelection
    \/ \E typed \in Typed, response \in SigninResponses :
          ResolveTokenForImport(typed, response)
    \/ NextImport

SpecMain == InitMain /\ [][NextMain]_vars

\* Two runs of the same command over the same export and state file: with
\* --allow-duplicates and --token, so that no listing is fetched in either
\* run, and without --dry-run.
InitTwoRuns ==
    /\ MainStarts({0, 1})
    /\ state_file # None
    /\ args.allow_duplicates
    /\ ~args.dry_run
    /\ Truthy(args.token) /\ Strip(args.token) # ""

\* The export is numbered in the order the first run goes through it; the
\* second run goes through it in any order.
NextTwoRuns ==
    \/ SkipDedup
    \/ LoadState
    \/ SelectConversations(IF run = 1 THEN {[i \in 1..Len(conversations) |-> i]}
                           ELSE Orders(Len(conversations)))
    \/ CheckSelection
    \/ \E typed \in Typed, response \in SigninResponses :
          ResolveTokenForImport(typed, response)
    \/ NextImport
    \/ StartSecondRun

SpecTwoRuns == InitTwoRuns /\ [][NextTwoRuns]_vars

-----------------------------------------------------------------------------
(* Vocabulary of the statements about build_chat_payload. *)

Returned == lpc = "returned"
HasChat == Returned /\ ~result.chat.isnone
Rejected == Returned /\ result.chat.isnone

InMapping == convo.mapping.items
InKeys == MappingKeys(InMapping)
CurrentValid == IsStr(convo.current_node) /\ convo.current_node \in InKeys
Childless(k) ==
    LET node == Lookup(InMapping, k)
    IN  node.children.islist /\ node.children.items = <<>>

\* The keys reached from the keys of S by following parent links.
RECURSIVE ParentClosure(_)
ParentClosure(S) ==
    LET T == S \cup ({Lookup(InMapping, k).parent : k \in S} \cap InKeys)
    IN  IF T = S THEN S ELSE ParentClosure(T)

\* k and its ancestors; the ancestors of k.
PathFrom(k) == ParentClosure({k})
Ancestors(k) == ParentClosure({Lookup(InMapping, k).parent} \cap InKeys)

\* The keys of the nodes the call walked, root first.
WalkedKeys ==
    IF ~convo.mapping.isdict \/ InMapping = <<>> THEN <<>>
    ELSE LET chain == Reverse(Walk(InMapping,
                                   ResolveLeaf(InMapping, convo.current_node),
                                   {}, <<>>))
         IN  [i \in 1..Len(chain) |-> chain[i].key]

\* The role a message carries in the export ("" when it carries none).
SourceRole(message) ==
    IF message.author.isdict THEN message.author.role ELSE ""

OutMessages == result.chat.messages
OutKeys == IF HasChat THEN Range(result.accepted) ELSE {}

\* The position of the message of node k in the output.
OutIndex(k) == CHOOSE i \in 1..Len(result.accepted) : result.accepted[i] = k

\* The message and node identifiers leave the message id to the node key.
IdsFromKeys ==
    \A i \in 1..Len(InMapping) :
        /\ InMapping[i].id = InMapping[i].key
        /\ InMapping[i].message.isdict => ~Truthy(InMapping[i].message.id)

-----------------------------------------------------------------------------
(* Statements about build_chat_payload. *)

\* C1: the messages of every returned chat form one linear chain: the
\* first has parentId null, each later one has the id of the message just
\* before it as parentId, each has exactly the id of the message just after
\* it in childrenIds, and the last has no children.
C1_LinearChain ==
    HasChat =>
        LET m == OutMessages
        IN  /\ m[1].parentId = None
            /\ \A i \in 2..Len(m) : m[i].parentId = m[i - 1].id
            /\ \A i \in 1..(Len(m) - 1) : m[i].childrenIds = <<m[i + 1].id>>
            /\ m[Len(m)].childrenIds = <<>>

\* C2: the identifier assigned to each accepted message differs from the
\* identifiers assigned to all earlier messages of the same chat.
C2_DistinctIds ==
    HasChat =>
        \A i, j \in 1..Len(OutMessages) :
            i < j => OutMessages[i].id # OutMessages[j].id

\* C3: with N accepted messages, the ordered sequence has N entries, the
\* keyed view has N entries, each entry of the sequence is the value under
\* its own id in the keyed view, and converted_messages is N.
C3_ExactlyNMessages ==
    HasChat =>
        LET N == Len(result.accepted)
        IN  /\ Len(OutMessages) = N
            /\ Cardinality(DOMAIN result.chat.history.messages) = N
            /\ \A i \in 1..Len(OutMessages) :
                   /\ OutMessages[i].id \in DOMAIN result.chat.history.messages
                   /\ result.chat.history.messages[OutMessages[i].id] = OutMessages[i]
            /\ result.stats.converted_messages = N

\* C4: every output message comes from a node on the parent-link path that
\* starts at the resolved leaf (current_node when it is a key of the
\* mapping, a childless node otherwise), whatever other branches the
\* mapping has, and the output runs from root to leaf: an earlier message
\* comes from an ancestor of the node of every later one.
C4_ActiveBranchOnly ==
    HasChat =>
        /\ \E leaf \in InKeys :
              /\ CurrentValid => leaf = convo.current_node
              /\ ~CurrentValid => Childless(leaf)
              /\ OutKeys \subseteq PathFrom(leaf)
        /\ \A i, j \in 1..Len(result.accepted) :
              i < j => result.accepted[i] \in Ancestors(result.accepted[j])
        /\ Len(OutMessages) = Len(result.accepted)
        /\ IdsFromKeys =>
              \A i \in 1..Len(OutMessages) : OutMessages[i].id = result.accepted[i]

\* A chat of two messages from a mapping of three nodes, all with a
\* message: one node is off the active branch.
C4_Witness ==
    /\ HasChat
    /\ Len(InMapping) = 3
    /\ Len(OutMessages) = 2
    /\ \E k \in InKeys : k \notin OutKeys /\ Lookup(InMapping, k).message.isdict

\* C5: of the messages on the walked path, one with role user or assistant
\* is dropped only by the emptiness filter, a system (tool) message is in
\* the output only if include_system (include_tool) is set, and a message
\* with any other role or none is never in the output.
C5_RoleFilter ==
    Returned =>
        \A i \in 1..Len(WalkedKeys) :
            LET k == WalkedKeys[i]
                message == Lookup(InMapping, k).message
                role == SourceRole(message)
            IN  message.isdict =>
                    /\ role \in {"user", "assistant"} =>
                          \/ k \in OutKeys
                          \/ ExtractText(message.content) = "" /\ ~keep_empty
                    /\ role = "system" /\ k \in OutKeys => include_system
                    /\ role = "tool" /\ k \in OutKeys => include_tool
                    /\ role \notin {"user", "assistant", "system", "tool"} =>
                          k \notin OutKeys

\* A system message kept under include_system next to a tool message
\* dropped for want of include_tool.
C5_Witness ==
    /\ HasChat
    /\ include_system /\ ~include_tool
    /\ \E k \in OutKeys : SourceRole(Lookup(InMapping, k).message) = "system"
    /\ \E i \in 1..Len(WalkedKeys) :
          /\ Lookup(InMapping, WalkedKeys[i]).message.isdict
          /\ SourceRole(Lookup(InMapping, WalkedKeys[i]).message) = "tool"
          /\ WalkedKeys[i] \notin OutKeys

\* C6: a role-allowed message on the walked path whose extracted content
\* is empty is dropped when keep_empty is false; when keep_empty is true it
\* is in the output with empty content, linked to the message before it and
\* to the message after it like any other; one with non-empty content is
\* never dropped.
C6_EmptinessFilter ==
    Returned =>
        \A i \in 1..Len(WalkedKeys) :
            LET k == WalkedKeys[i]
                message == Lookup(InMapping, k).message
            IN  message.isdict
                /\ AllowedRole(SourceRole(message), include_system, include_tool) =>
                    /\ ExtractText(message.content) # "" => k \in OutKeys
                    /\ ExtractText(message.content) = "" /\ ~keep_empty =>
                          k \notin OutKeys
                    /\ ExtractText(message.content) = "" /\ keep_empty =>
                          /\ k \in OutKeys
                          /\ LET p == OutIndex(k)
                                 m == OutMessages
                             IN  /\ m[p].content = ""
                                 /\ m[p].parentId =
                                       IF p = 1 THEN None ELSE m[p - 1].id
                                 /\ p > 1 => m[p - 1].childrenIds = <<m[p].id>>
                                 /\ m[p].childrenIds =
                                       IF p = Len(m) THEN <<>> ELSE <<m[p + 1].id>>

\* keep_empty retains an empty message between two others.
C6_Witness ==
    /\ HasChat
    /\ keep_empty
    /\ Len(OutMessages) = 3
    /\ OutMessages[2].content = ""
    /\ OutMessages[1].content # ""

\* The active leaf cannot be resolved: current_node is no key of the
\* mapping and no node has an empty children list.
LeafUnresolved == ~CurrentValid /\ \A k \in InKeys : ~Childless(k)

\* No message on the walked path passes the role and emptiness filters.
NoneSurvives ==
    \A i \in 1..Len(WalkedKeys) :
        LET message == Lookup(InMapping, WalkedKeys[i]).message
        IN  \/ ~message.isdict
            \/ ~AllowedRole(SourceRole(message), include_system, include_tool)
            \/ ExtractText(message.content) = "" /\ ~keep_empty

\* C7: the call returns no chat, and converted_messages = 0, whenever the
\* mapping is missing or empty, the active leaf cannot be resolved, or no
\* message survives the filters; every chat it returns has a message.
C7_Rejections ==
    Returned =>
        /\ (\/ ~convo.mapping.isdict
            \/ InMapping = <<>>
            \/ LeafUnresolved
            \/ NoneSurvives)
              => Rejected /\ result.stats.converted_messages = 0
        /\ HasChat =>
              /\ Len(OutMessages) >= 1
              /\ result.stats.converted_messages >= 1
              /\ DOMAIN result.chat.history.messages # {}

\* A rejection for want of a surviving message: the mapping has nodes, the
\* leaf resolves, the path carries messages, none passes the filters.
C7_Witness ==
    /\ Rejected
    /\ Len(WalkedKeys) >= 2
    /\ \E i \in 1..Len(WalkedKeys) : Lookup(InMapping, WalkedKeys[i]).message.isdict
    /\ NoneSurvives

\* A rejection because the leaf cannot be resolved.
C7_WitnessLeaf == Rejected /\ InMapping # <<>> /\ LeafUnresolved

-----------------------------------------------------------------------------
(* Vocabulary of the statements about import_with_chunks. *)

\* The source ids of the conversations a call carried.
CallIds(call) ==
    {Str(call.chats[j].meta.conversation_id) : j \in 1..Len(call.chats)}

\* The positions of the lines this run appended to the state file.
AppendedLines == (Len(state_at_start) + 1)..Len(state_lines)

\* The calls made so far that returned a successful response.
Successes == {i \in 1..Len(calls) : calls[i].ok}

\* The run is at a point where it issues a call, or has stopped.
AtCallOrStopped ==
    \/ pc = "bulk" /\ start < Len(selected_forms)
    \/ pc = "single"
    \/ pc = "exit"

-----------------------------------------------------------------------------
(* Statements about import_with_chunks. *)

\* C8: the state file only grows, and every line this run has appended is
\* the source id of a conversation carried by a call, bulk or individual,
\* that was made before and returned a successful response.
C8_StateOnlyAfterSuccess ==
    /\ Len(state_lines) >= Len(state_at_start)
    /\ SubSeq(state_lines, 1, Len(state_at_start)) = state_at_start
    /\ \A p \in AppendedLines :
          \E i \in Successes :
              /\ state_lines[p] \in CallIds(calls[i])
              /\ calls[i].lines_before < p

\* With fallback on, a bulk call has failed, an individual retry has failed
\* and another has succeeded and is in the state file.
C8_Witness ==
    /\ state_file # None
    /\ AppendedLines # {}
    /\ \E i, j \in 1..Len(calls) :
          /\ calls[i].kind = "bulk" /\ ~calls[i].ok
          /\ calls[j].kind = "single" /\ ~calls[j].ok
    /\ \E i \in Successes : calls[i].kind = "single"

C10_AbortOnBulkFailure ==
    \A i \in 1..Len(calls) :
        calls[i].kind = "bulk" /\ ~calls[i].ok /\ ~continue_on_error =>
            /\ i = Len(calls)
            /\ \A j \in 1..Len(calls) : calls[j].kind = "bulk"
            /\ pc = "exit"
            /\ exit_code # 0
            /\ Len(state_lines) = calls[i].lines_before
            /\ state_file # None =>
                  \A j \in 1..(i - 1) :
                      \A id \in CallIds(calls[j]) :
                          id # "" => \E p \in AppendedLines : state_lines[p] = id

\* The second chunk fails after the first was delivered and recorded.
C10_Witness ==
    /\ ~continue_on_error
    /\ state_file # None
    /\ Len(calls) = 2
    /\ calls[1].ok /\ ~calls[2].ok
    /\ AppendedLines # {}
    /\ Len(selected_forms) > calls[2].last
    /\ pc = "exit"

-----------------------------------------------------------------------------
(* Vocabulary of the statements about the calls of a run. *)

Bulks == {i \in 1..Len(calls) : calls[i].kind = "bulk"}
Singles == {i \in 1..Len(calls) : calls[i].kind = "single"}

\* The number of chats a call carries.
Size(call) == call.last - call.first

\* The source ids of the chats of a call, in the order of the chats.
CallIdSeq(call) ==
    [j \in 1..Len(call.chats) |-> Str(call.chats[j].meta.conversation_id)]

NonEmpty(ids) == SelectSeq(ids, LAMBDA id : id # "")

\* The lines the i-th call left in the state file: those between the
\* length of the file at this call and its length at the next.
AppendedBy(i) ==
    SubSeq(state_lines, calls[i].lines_before + 1,
           IF i < Len(calls) THEN calls[i + 1].lines_before ELSE Len(state_lines))

\* The i-th call is a bulk call that failed with the fallback on: the calls
\* that follow it are the chats of its chunk, one call each, in the order
\* of the chunk, as far as the run has come, and the run has not stopped
\* before the last of them; the call after them is the bulk call of the
\* next chunk.
RetriedChatByChat(i) ==
    /\ \A k \in 1..Size(calls[i]) :
          IF i + k <= Len(calls)
          THEN /\ calls[i + k].kind = "single"
               /\ calls[i + k].first = calls[i].first + k - 1
               /\ calls[i + k].last = calls[i].first + k
               /\ calls[i + k].chats = <<selected_forms[calls[i].first + k]>>
          ELSE /\ pc = "single"
               /\ start = calls[i].first
               /\ single = Len(calls) - i
    /\ i + Size(calls[i]) < Len(calls) =>
          /\ calls[i + Size(calls[i]) + 1].kind = "bulk"
          /\ calls[i + Size(calls[i]) + 1].first = calls[i].last

\* Every chunk is first attempted as one bulk call: the first call is a
\* bulk call, the call after a successful bulk call is the bulk call of the
\* next chunk, and an individual call is one of the retries of a failed
\* bulk call.
BulkFirst ==
    /\ calls # <<>> => calls[1].kind = "bulk" /\ calls[1].first = 0
    /\ \A i \in Bulks :
          calls[i].ok /\ i < Len(calls) =>
              /\ calls[i + 1].kind = "bulk"
              /\ calls[i + 1].first = calls[i].last
    /\ \A j \in Singles :
          \E i \in Bulks : ~calls[i].ok /\ i < j /\ j <= i + Size(calls[i])

-----------------------------------------------------------------------------
(* Statements about the fallback, the chunks and the exit status. *)

EffectiveChunkSize(c, n) == IF c > 0 THEN c ELSE n

\* The run got through all its chunks.
AllChunksDone ==
    pc = "exit" /\ (continue_on_error \/ \A i \in 1..Len(calls) : calls[i].ok)

\* C14: the bulk calls of a run carry contiguous, disjoint chunks of the
\* selection, in order from its start; a chunk has as many chats as the
\* chunk size says, except that the last may have fewer, and never none;
\* with --chunk-size 0 there is one chunk, the whole selection.  A run that
\* is not aborted covers the selection.  The ids a successful bulk call puts
\* in the state file are those of the stats records of its chunk, which are
\* the ids of the chats it carried.
C14_ChunkPartition ==
    LET n == Len(selected_forms)
        size == EffectiveChunkSize(args.chunk_size, n)
    IN  /\ \A i \in Bulks :
              /\ calls[i].chats = Slice(selected_forms, calls[i].first, calls[i].last)
              /\ Size(calls[i]) >= 1
              /\ Size(calls[i]) <= size
              /\ Size(calls[i]) < size => calls[i].last = n
              /\ IF \E j \in Bulks : j < i
                 THEN \E j \in Bulks :
                         /\ j < i
                         /\ \A k \in Bulks : ~(j < k /\ k < i)
                         /\ calls[i].first = calls[j].last
                 ELSE calls[i].first = 0
              /\ args.chunk_size = 0 => calls[i].first = 0 /\ calls[i].last = n
              /\ calls[i].ok /\ state_file # None =>
                    /\ AppendedBy(i) =
                          NonEmpty(SourceIds(Slice(selected_stats, calls[i].first,
                                                   calls[i].last)))
                    /\ AppendedBy(i) = NonEmpty(CallIdSeq(calls[i]))
        /\ AllChunksDone => \E i \in Bulks : calls[i].last = n

\* Three chats under --chunk-size 2 went out as a chunk of two and a chunk
\* of one, both recorded.
C14_Witness ==
    /\ args.chunk_size = 2
    /\ Len(selected_forms) = 3
    /\ state_file # None
    /\ pc = "exit"
    /\ Len(calls) = 2
    /\ calls[1].ok /\ Size(calls[1]) = 2 /\ Len(AppendedBy(1)) = 2
    /\ calls[2].ok /\ Size(calls[2]) = 1 /\ calls[2].first = 2

\* The lines this run appended to the state file, in the order of the file.
ThisRunLines == SubSeq(state_lines, Len(state_at_start) + 1, Len(state_lines))

\* The ids, less the empty ones, of the chats of the successful calls among
\* the first i calls, in the order of the calls.
RECURSIVE DeliveredIds(_)
DeliveredIds(i) ==
    IF i = 0 THEN <<>>
    ELSE DeliveredIds(i - 1)
            \o (IF calls[i].ok THEN NonEmpty(CallIdSeq(calls[i])) ELSE <<>>)

\* a can be had from b by leaving elements out.
RECURSIVE IsSubsequence(_, _)
IsSubsequence(a, b) ==
    IF a = <<>> THEN TRUE
    ELSE IF b = <<>> THEN FALSE
    ELSE IF Head(a) = Head(b) THEN IsSubsequence(Tail(a), Tail(b))
    ELSE IsSubsequence(a, Tail(b))

\* C15: the ids a run appends to the state file are in the file in the
\* order in which the deliveries of their conversations were confirmed, and
\* they are a subsequence of the ids of the selection in selection order,
\* whichever calls fail.
C15_AppendOrder ==
    state_file # None =>
        /\ ThisRunLines = DeliveredIds(Len(calls))
        /\ IsSubsequence(ThisRunLines, SourceIds(selected_stats))

\* Three chats with different ids, one chat to a chunk: the first and the
\* third were delivered and recorded, the second failed in bulk and alone.
C15_Witness ==
    /\ state_file # None
    /\ pc = "exit"
    /\ Len(selected_forms) = 3
    /\ Len(calls) = 4
    /\ calls[1].ok /\ ~calls[2].ok /\ ~calls[3].ok /\ calls[4].ok
    /\ Len(ThisRunLines) = 2
    /\ ThisRunLines[1] # ThisRunLines[2]
    /\ Str(selected_stats[2].source_id) \notin {"", ThisRunLines[1], ThisRunLines[2]}

\* A call of the delivery phase failed.
SomeCallFailed == \E i \in 1..Len(calls) : ~calls[i].ok

-----------------------------------------------------------------------------
(* Statements about two runs in a row. *)

\* The export indices of the conversations of the given forms.
ItemsOf(forms) == {forms[k].item : k \in 1..Len(forms)}

\* The chats the successful calls of a log carried, and the chats of all
\* its calls.
DeliveredChats(log) ==
    UNION {Range(log[i].chats) : i \in {j \in 1..Len(log) : log[j].ok}}
SentChats(log) == UNION {Range(log[i].chats) : i \in 1..Len(log)}

-----------------------------------------------------------------------------
(* Vocabulary of the statements about one run of main. *)

\* The selection loop has run: the run is past it and has examined a
\* candidate, if there is any.
SelectionMade ==
    /\ pc \notin {"main", "fetch", "load", "select"}
    /\ conversations # <<>> => examined # <<>>

\* The ids in the state file when the run started.
StateIdsAtStart == LoadStateIds(state_file, state_at_start)

\* The source id of the conversation at index idx of the export, as the
\* selection loop reads it, and whether build_chat_payload accepts the
\* conversation.
SourceIdOf(idx) == Str(conversations[idx].id)
Convertible(idx) ==
    ~BuildChatPayload(conversations[idx], FALSE, FALSE, FALSE).chat.isnone

\* The export indices of the selection, in selection order.
SelectedItems == [k \in 1..Len(selected_forms) |-> selected_forms[k].item]

\* The run is over without a call of the import endpoint and with the
\* state file as it was.
NothingDelivered == calls = <<>> /\ state_lines = state_at_start

-----------------------------------------------------------------------------
(* Statements about one run of main. *)

\* C13: no conversation of the selection has a source id that is in the
\* state file as read at startup or among the ids found on the server: a
\* candidate with an id in either set is examined and left out.
C13_DedupUnion ==
    /\ \A k \in 1..Len(selected_forms) :
          SourceIdOf(selected_forms[k].item)
              \notin StateIdsAtStart \cup existing_source_ids
    /\ SelectionMade =>
          \A idx \in Range(examined) :
              SourceIdOf(idx) \in StateIdsAtStart \cup existing_source_ids =>
                  idx \notin ItemsOf(selected_forms)

\* The loop has come to a conversation whose id is in the state file only
\* and to one whose id is on the server only, both convertible, and has
\* selected neither.
C13_Witness ==
    /\ SelectionMade
    /\ \E i, j \in Range(examined) :
          /\ Convertible(i) /\ Convertible(j)
          /\ SourceIdOf(i) \in StateIdsAtStart \ existing_source_ids
          /\ SourceIdOf(j) \in existing_source_ids \ StateIdsAtStart
          /\ ItemsOf(selected_forms) \cap {i, j} = {}

\* The loop neither skips nor rejects the conversation at index idx.
Eligible(idx) ==
    /\ Convertible(idx)
    /\ SourceIdOf(idx) \notin imported_state_ids \cup existing_source_ids

\* C16: with --count T, T not 0, the selection is never longer than T; it
\* is made of the candidates that are neither skipped nor rejected, in the
\* order the loop came to them; when it reaches T the loop stops, the T-th
\* selected candidate being the last one examined; when the candidates run
\* out before, the run exits with a status that is not 0, without a call
\* of the import endpoint and with the state file as it was.  With
\* --count 0 every candidate is examined and every one that is neither
\* skipped nor rejected is selected.
C16_CountTarget ==
    SelectionMade =>
        /\ SelectedItems = SelectSeq(examined, Eligible)
        /\ \A i, j \in 1..Len(examined) : examined[i] = examined[j] => i = j
        /\ IF args.count # 0 /\ Len(selected_forms) >= args.count
           THEN /\ Len(selected_forms) = args.count
                /\ examined[Len(examined)] = SelectedItems[args.count]
           ELSE Len(examined) = Len(conversations)
        /\ args.count # 0 /\ Len(selected_forms) < args.count /\ pc # "selected" =>
              pc = "exit" /\ exit_code # 0 /\ NothingDelivered

\* Under --count 1 the first candidate the loop came to was selected and
\* the second, as good as the first, was not examined.
C16_Witness ==
    /\ SelectionMade
    /\ args.count = 1
    /\ Len(selected_forms) = 1
    /\ Len(examined) = 1
    /\ \E idx \in 1..Len(conversations) : idx \notin Range(examined) /\ Eligible(idx)

\* Under --count 2 one candidate was found and the run has given up.
C16_WitnessExhausted ==
    /\ pc = "exit"
    /\ args.count = 2
    /\ Len(selected_forms) = 1
    /\ Len(examined) = 2
    /\ exit_code = 1

\* C17: under --allow-duplicates the listing of the server is never
\* fetched, the set of ids found on the server stays empty, and up to the
\* end of the selection there is no sign-in and no token; the selection is
\* then made of the candidates examined that are convertible and whose id
\* is not in the state file.  Without a state file the selection is made of
\* the candidates examined that are convertible and whose id is not among
\* the ids found on the server.
C17_IndependentFilters ==
    /\ args.allow_duplicates =>
          /\ listings = 0
          /\ existing_source_ids = {}
          /\ pc \in {"main", "load", "select", "selected"} =>
                signins = 0 /\ token = None
          /\ SelectionMade =>
                SelectedItems =
                    SelectSeq(examined,
                              LAMBDA idx : /\ Convertible(idx)
                                           /\ SourceIdOf(idx) \notin StateIdsAtStart)
    /\ state_file = None /\ SelectionMade =>
          SelectedItems =
              SelectSeq(examined,
                        LAMBDA idx : /\ Convertible(idx)
                                     /\ SourceIdOf(idx) \notin existing_source_ids)

\* Under --allow-duplicates the loop has come to a convertible conversation
\* whose id is in the state file and to one whose id is not, and has
\* selected the second only.
C17_Witness ==
    /\ args.allow_duplicates
    /\ SelectionMade
    /\ listings = 0
    /\ \E i, j \in Range(examined) :
          /\ Convertible(i) /\ Convertible(j)
          /\ SourceIdOf(i) \in StateIdsAtStart
          /\ SourceIdOf(j) \notin StateIdsAtStart
          /\ ItemsOf(selected_forms) = {j}

\* Without a state file the loop has left out a convertible conversation
\* whose id is on the server.
C17_WitnessNoStateFile ==
    /\ state_file = None
    /\ SelectionMade
    /\ \E i \in Range(examined) :
          /\ Convertible(i)
          /\ SourceIdOf(i) \in existing_source_ids
          /\ i \notin ItemsOf(selected_forms)

\* A token that is not blank was given with --token.
TokenGiven == Truthy(args.token) /\ Strip(args.token) # ""

\* C19: signin is called at most once in a run; never when a token that is
\* not blank was given, never under --dry-run with --allow-duplicates, and
\* only for the dedup against the server or for the delivery of a
\* selection; with the dedup on, the token found for it is the token of the
\* delivery, resolve_token not being called again; and after a sign-in
\* that gave no token the run has exited with a status that is not 0,
\* without a call of the import endpoint and with the state file as it was.
C19_SignIn ==
    /\ signins <= 1
    /\ signins > 0 =>
          /\ ~TokenGiven
          /\ ~(args.dry_run /\ args.allow_duplicates)
          /\ ~args.allow_duplicates \/ (~args.dry_run /\ selected_forms # <<>>)
    /\ ~args.allow_duplicates => pc # "auth"
    /\ calls # <<>> => Truthy(token)
    /\ signins > 0 /\ ~Truthy(token) =>
          pc = "exit" /\ exit_code # 0 /\ NothingDelivered

\* The run signed in for the dedup and has delivered with the token it got.
C19_Witness ==
    /\ ~args.allow_duplicates
    /\ signins = 1
    /\ token = "tok2"
    /\ \E i \in 1..Len(calls) : calls[i].ok
    /\ pc = "exit"

\* A sign-in for the delivery failed and the run has given up.
C19_WitnessFailure ==
    /\ args.allow_duplicates
    /\ signins = 1
    /\ ~Truthy(token)
    /\ selected_forms # <<>>
    /\ pc = "exit"

\* C20: under --dry-run no call of the import endpoint is made and the
\* state file stays as it was at the start of the run.
C20_DryRun == args.dry_run => NothingDelivered

\* A dry run has made a selection and has exited with 0.
C20_Witness ==
    /\ args.dry_run
    /\ pc = "exit"
    /\ selected_forms # <<>>
    /\ exit_code = 0
    /\ state_file # None

-----------------------------------------------------------------------------
(* Vocabulary of the statements about the leaf resolution and the walk.    *)

\* The call is past the while loop (or has returned before it).
WalkOver == lpc \in {"convert", "returned"}

WalkLeft == lpc \in {"convert", "returned"} /\ walk.node_chain # <<>>
ChainKeys == [i \in 1..Len(walk.node_chain) |-> walk.node_chain[i].key]
LastWalked == walk.node_chain[Len(walk.node_chain)]

\* The step-by-step walk ends with the chain the operator Walk computes.
WalkAgrees ==
    /\ WalkLeft =>
          walk.node_chain = Walk(InMapping, ChainKeys[1], {}, <<>>)
    /\ Returned =>
          result = BuildChatPayload(convo, include_system, include_tool, keep_empty)

\* Why the walk stopped after its last node.
StoppedAtRoot == ~IsStr(LastWalked.parent)
StoppedAtMissing == IsStr(LastWalked.parent) /\ LastWalked.parent \notin InKeys
StoppedAtRevisit == IsStr(LastWalked.parent) /\ LastWalked.parent \in walk.visited

\* What holds of the chain at every moment of the call.
ChainBounded ==
    /\ \A i, j \in 1..Len(ChainKeys) : i < j => ChainKeys[i] # ChainKeys[j]
    /\ Len(walk.node_chain) <= Len(InMapping)
    /\ walk.visited = Range(ChainKeys)
    /\ \A i \in 1..Len(walk.node_chain) :
           walk.node_chain[i] = Lookup(InMapping, ChainKeys[i])

\* The walk went on from every node but the last, and stopped at the last
\* for one of the three reasons.
StoppedAtFirst ==
    WalkLeft =>
        /\ \A i \in 1..(Len(ChainKeys) - 1) :
               /\ IsStr(walk.node_chain[i].parent)
               /\ walk.node_chain[i].parent = ChainKeys[i + 1]
        /\ StoppedAtRoot \/ StoppedAtMissing \/ StoppedAtRevisit

-----------------------------------------------------------------------------
(* Statements about the leaf resolution and the walk. *)

\* C21: the parent-link walk terminates on every node mapping, parent
\* cycles and parents missing from the mapping included: the call leaves
\* the while loop; the walk stops at the first node with no parent, with a parent id that
\* is not in the mapping, or whose parent was already walked; no node is
\* in the chain twice and the chain has at most as many nodes as the
\* mapping.
C21_WalkTerminates ==
    /\ [](ChainBounded /\ StoppedAtFirst)
    /\ <>WalkOver

\* A walk of two nodes or more that a parent cycle ended, and one that a
\* parent missing from the mapping ended.
C21_Witness ==
    /\ Returned /\ WalkLeft
    /\ Len(walk.node_chain) >= 2
    /\ StoppedAtRevisit

C21_WitnessMissing ==
    /\ Returned /\ WalkLeft
    /\ Len(walk.node_chain) >= 2
    /\ StoppedAtMissing

\* The mapping passed the check of line 311 and the resolution was made.
Resolved == convo.mapping.isdict /\ InMapping # <<>> /\ lpc # "call"

\* The walk was entered; the node it started at.
Started == lpc \in {"walk", "convert"} \/ (Returned /\ walk.node_chain # <<>>)
WalkStart == IF walk.node_chain = <<>> THEN walk.node_id ELSE ChainKeys[1]

SomeChildless == \E k \in InKeys : Childless(k)

\* C22: when current_node is a key of the mapping the walk starts there;
\* when it is absent, empty, not a string or not a key, the walk starts at
\* a node whose children list is empty; when there is no such node either,
\* the conversation is rejected without a walk.
C22_LeafResolution ==
    Resolved =>
        /\ CurrentValid => Started /\ WalkStart = convo.current_node
        /\ ~CurrentValid /\ SomeChildless =>
              Started /\ WalkStart \in InKeys /\ Childless(WalkStart)
        /\ ~CurrentValid /\ ~SomeChildless =>
              Rejected /\ walk.node_chain = <<>>

\* A walk from a valid current_node that has children while another node
\* has none; a walk from a childless node for each kind of unusable
\* current_node; a rejection for want of a childless node.
C22_Witness ==
    /\ Returned /\ Started /\ CurrentValid
    /\ ~Childless(convo.current_node) /\ SomeChildless

C22_WitnessFallback ==
    /\ Returned /\ Started
    /\ convo.current_node = "ghost"
    /\ Childless(WalkStart) /\ \E k \in InKeys : ~Childless(k)

C22_WitnessRejected ==
    /\ Resolved /\ Rejected /\ walk.node_chain = <<>>
    /\ convo.current_node = NonStr /\ ~SomeChildless

-----------------------------------------------------------------------------
(* Statements about the counts and the deliveries of a run. *)

\* Every id of the selection leaves a line in the state file when it is
\* appended: there is a state file and no id is the empty string.
EveryIdRecorded ==
    /\ state_file # None
    /\ \A i \in 1..Len(selected_stats) : selected_stats[i].source_id # ""

\* import_with_chunks was called and returned.
ImportCompleted == AllChunksDone /\ calls # <<>>

\* C23: whatever the length of the arrays the successful calls returned,
\* when import_with_chunks completes in a run that records every id, the
\* imported count is the number of conversations whose ids the run
\* appended to the state file, and with the fallback on the imported count
\* and the failed count add up to the number of selected conversations.
C23_CountsAgree ==
    ImportCompleted /\ EveryIdRecorded =>
        /\ imported_count = Len(ThisRunLines)
        /\ continue_on_error =>
              imported_count + failed_count = Len(selected_forms)

\* The calls that carried the k-th conversation of the selection.
CallsOf(k) == {i \in 1..Len(calls) : calls[i].first < k /\ k <= calls[i].last}

\* Those of them after which the id of the conversation was appended to
\* the state file.
AppendsOf(k) ==
    {i \in CallsOf(k) :
        Str(selected_stats[k].source_id) \in Range(AppendedBy(i))}

\* C24: within one run of import_with_chunks, each selected conversation
\* is part of at most one delivery call that returns success (the bulk
\* call of its chunk or its own individual retry, never both), and its
\* source id is appended to the state file at most once.
C24_DeliveredOnce ==
    \A k \in 1..Len(selected_forms) :
        /\ Cardinality(CallsOf(k) \cap Successes) <= 1
        /\ Cardinality(AppendsOf(k)) <= 1

====
